---- MODULE Spec2Model ----
(***************************************************************************)
(* disnake/i18n.py: the file-backed LocalizationStore.                     *)
(*                                                                         *)
(* The state is one store object (strict, _localizations, _paths), the     *)
(* part of the file system the store is pointed at (disk) and the outcome  *)
(* of the operation that ran last (result).  Every public method is one    *)
(* action; the methods themselves are operators that return the new store  *)
(* together with the exception that leaves the method, if any.  For two    *)
(* execution contexts that call reload() on the same store, calls holds    *)
(* the frame of each call and the dict objects the frames refer to; the    *)
(* steps of such a call are actions of their own (SpecRace).               *)
(*                                                                         *)
(* Python values: a str s is PyStr(s), a non-str JSON scalar is PyInt(s);  *)
(* a dict is a function on its key set; None and "no exception" are <<>>.  *)
(* A file name is the sequence of its dot-separated parts, a path the      *)
(* sequence of its names, so that suffix, stem and glob are computed.      *)
(***************************************************************************)
EXTENDS Integers, Sequences, FiniteSets, TLC

VARIABLES strict, _localizations, _paths, disk, result, calls

vars == <<strict, _localizations, _paths, disk, result, calls>>

-----------------------------------------------------------------------------
(* Values *)

None == <<>>
NoErr == <<>>
EmptyDict == <<>>

PyStr(s) == [t |-> "str", s |-> s]
PyInt(s) == [t |-> "int", s |-> s]
isinstance_str(x) == x.t = "str"

Keys == {"a", "b"}

\* the locale identifiers the external validity check accepts
ValidLocales == {"en-US", "fr"}

\* Locale enum members (enums.Locale) that get() accepts besides plain strings
LocaleEnum == {[t |-> "Locale", name |-> "en_US", value |-> "en-US"]}
LocaleArgs == {PyStr(l) : l \in ValidLocales} \cup LocaleEnum

-----------------------------------------------------------------------------
(* File names and paths *)

NameDir == <<"i18n">>
NameEn == <<"en-US", "json">>
NameFr == <<"fr", "json">>
NameBad == <<"xx-INVALID", "json">>
NameTxt == <<"notes", "txt">>

DirPath == <<NameDir>>
EnPath == <<NameDir, NameEn>>
FrPath == <<NameDir, NameFr>>
BadPath == <<NameDir, NameBad>>
TxtPath == <<NameDir, NameTxt>>

PathUniverse == {DirPath, EnPath, FrPath, BadPath, TxtPath}

\* the paths handed to load()
LoadArgs == {DirPath, EnPath, BadPath}

RECURSIVE Join(_, _)
Join(parts, sep) ==
    IF Len(parts) = 0 THEN ""
    ELSE IF Len(parts) = 1 THEN parts[1]
    ELSE parts[1] \o sep \o Join(Tail(parts), sep)

name(path) == path[Len(path)]
parent(path) == SubSeq(path, 1, Len(path) - 1)

\* PurePath.suffix: the last dot-separated part, unless the name has no dot,
\* starts with its only dot or ends with a dot ("" then); without the dot.
HasSuffix(n) ==
    /\ Len(n) >= 2
    /\ ~(Len(n) = 2 /\ n[1] = "")
    /\ n[Len(n)] # ""
suffix(path) == IF HasSuffix(name(path)) THEN name(path)[Len(name(path))] ELSE ""
stem(path) ==
    IF HasSuffix(name(path))
    THEN Join(SubSeq(name(path), 1, Len(name(path)) - 1), ".")
    ELSE Join(name(path), ".")

RECURSIVE NamesStr(_)
NamesStr(path) ==
    IF Len(path) = 0 THEN ""
    ELSE IF Len(path) = 1 THEN Join(path[1], ".")
    ELSE Join(path[1], ".") \o "/" \o NamesStr(Tail(path))
str(path) == NamesStr(path)

-----------------------------------------------------------------------------
(* File system *)

NoText == [form |-> "none", members |-> <<>>]
Missing == [kind |-> "missing", text |-> NoText]
DirNode == [kind |-> "dir", text |-> NoText]
OtherNode == [kind |-> "other", text |-> NoText]
File(text) == [kind |-> "file", text |-> text]

Member(k, v) == [name |-> k, value |-> v]
Malformed == [form |-> "malformed", members |-> <<>>]
Array == [form |-> "array", members |-> <<>>]
Object(members) == [form |-> "object", members |-> members]

A1 == Member("a", PyStr("1"))
A2 == Member("a", PyStr("2"))
B1 == Member("b", PyStr("1"))
B7 == Member("b", PyInt("7"))

\* the texts en-US.json is given: no JSON, a JSON array, and JSON objects of
\* at most MaxMembers members
MaxMembers == 2
TextPool == {Malformed, Array, Object(<<>>), Object(<<A1, B1>>), Object(<<A2>>),
             Object(<<A1, B7>>), Object(<<A2, A1>>), Object(<<A1, B1, A2>>)}
EnTexts == {t \in TextPool : Len(t.members) <= MaxMembers}

NodeOptions(p) ==
    IF p = DirPath THEN {Missing, DirNode, OtherNode, File(Malformed)}
    ELSE IF p = EnPath THEN {Missing, DirNode} \cup {File(t) : t \in EnTexts}
    ELSE IF p = FrPath THEN {Missing, File(Object(<<A2>>))}
    ELSE IF p = BadPath THEN {Missing, File(Object(<<A1>>))}
    ELSE {Missing, File(Malformed)}

exists(fs, path) == fs[path].kind # "missing"
is_dir(fs, path) == fs[path].kind = "dir"
is_file(fs, path) == fs[path].kind = "file"

\* Path.glob("*.json"): the direct children whose name ends in ".json"
glob(fs, path) ==
    {c \in DOMAIN fs :
        /\ Len(c) = Len(path) + 1
        /\ parent(c) = path
        /\ exists(fs, c)
        /\ Len(name(c)) >= 2
        /\ name(c)[Len(name(c))] = "json"}

Perms(S) ==
    {f \in [1..Cardinality(S) -> S] :
        \A i, j \in 1..Cardinality(S) : i # j => f[i] # f[j]}

-----------------------------------------------------------------------------
(* Collaborators outside i18n.py *)

\* utils.as_valid_locale: the locale for a valid stem, None otherwise
as_valid_locale(s) == IF s \in ValidLocales THEN <<s>> ELSE None

RECURSIVE DictOf(_, _)
DictOf(members, i) ==
    IF i = 0 THEN <<>>
    ELSE LET rest == DictOf(members, i - 1)
             m == members[i]
             at == {j \in 1..Len(rest) : rest[j][1] = PyStr(m.name)}
         IN IF at = {}
            THEN Append(rest, <<PyStr(m.name), m.value>>)
            ELSE [rest EXCEPT ![CHOOSE j \in at : TRUE] = <<PyStr(m.name), m.value>>]

\* utils._from_json: raises on malformed text; an object becomes a dict whose
\* items are in first-insertion order with the last value of a repeated name
_from_json(text) ==
    IF text.form = "malformed"
    THEN [err |-> <<"JSONDecodeError", "Expecting value">>, data |-> None]
    ELSE IF text.form = "array"
    THEN [err |-> NoErr, data |-> [t |-> "list", items |-> <<>>]]
    ELSE [err |-> NoErr,
          data |-> [t |-> "dict", items |-> DictOf(text.members, Len(text.members))]]

LocalizationLookupError(key, locale) == <<"LocalizationLookupError", key, locale>>


-----------------------------------------------------------------------------
(* Exceptions: <<class, message>> *)

RuntimeError(msg) == <<"RuntimeError", msg>>
ValueError(msg) == <<"ValueError", msg>>
KeyError(k) == <<"KeyError", k>>
TypeError(msg) == <<"TypeError", msg>>

Raise(self, e) == [self |-> self, err |-> e]
Return(self) == [self |-> self, err |-> NoErr]

-----------------------------------------------------------------------------
(* class Localized *)

\* __slots__ of the class body, and the names the class body binds as class
\* variables (a dataclass field with a default is one: key = None)
LocalizedSlots == {"default", "key"}
LocalizedClassVars == {"key"}

\* the class statement: type.__new__ refuses a name of __slots__ that is also
\* a class variable, so the class is never created
class_Localized ==
    IF LocalizedSlots \cap LocalizedClassVars # {}
    THEN ValueError("'" \o (CHOOSE n \in LocalizedSlots \cap LocalizedClassVars : TRUE)
                    \o "' in __slots__ conflicts with class variable")
    ELSE NoErr

\* Localized(default, key=None): the dataclass __init__; an Optional[str] is
\* None or <<the str>>
Localized(default, key) == [t |-> "Localized", default |-> default, key |-> key]

\* Localized.cast
cast(src) == IF isinstance_str(src) THEN Localized(src, None) ELSE src

\* the expression Localized.cast(src) in a program: it needs the class
Localized_cast(src) ==
    IF class_Localized # NoErr
    THEN [ret |-> None, err |-> class_Localized]
    ELSE [ret |-> <<cast(src)>>, err |-> NoErr]

\* the arguments cast is given: bare strings and containers
CastArgs ==
    {PyStr("hello"), PyStr("hi")}
        \cup {Localized(PyStr(d), k) : d \in {"hello", "hi"}, k \in {None, <<PyStr("k")>>}}

-----------------------------------------------------------------------------
(* class LocalizationProtocol(ABC), class LocalizationStore *)

\* the methods LocalizationProtocol marks @abstractmethod
ProtocolAbstract == {"available_languages", "get"}

\* the methods the body of class LocalizationStore defines
StoreMethods == {"__init__", "get", "load", "reload", "_load_file"}

\* ABCMeta: the abstract methods a subclass inherits and does not define
abstractmethods(cls) ==
    IF cls = "LocalizationProtocol" THEN ProtocolAbstract
    ELSE ProtocolAbstract \ StoreMethods

\* LocalizationStore.__init__
init(s) == [strict |-> s, _localizations |-> EmptyDict, _paths |-> {}]

\* LocalizationStore(strict=s): object.__new__ refuses a class that still has
\* abstract methods, before __init__ runs
construct(cls, s) ==
    IF abstractmethods(cls) # {}
    THEN [obj |-> None,
          err |-> TypeError("Can't instantiate abstract class " \o cls)]
    ELSE [obj |-> <<init(s)>>, err |-> NoErr]

\* setitem that keeps the value a key already has (dict.setdefault)
setitem_keep_first(d, k, v) == [x \in DOMAIN d \cup {k} |-> IF x \in DOMAIN d THEN d[x] ELSE v]

\* dict.__setitem__
setitem(d, k, v) == [x \in DOMAIN d \cup {k} |-> IF x = k THEN v ELSE d[x]]

\* get that raises on a miss whatever strict is
get_always_raises(self, key, locale) ==
    LET l == IF isinstance_str(locale) THEN locale.s ELSE locale.value
    IN  IF l \in DOMAIN self._localizations /\ key \in DOMAIN self._localizations[l]
        THEN [ret |-> <<self._localizations[l][key]>>, err |-> NoErr]
        ELSE [ret |-> None, err |-> LocalizationLookupError(key, l)]

\* get that never raises
get_never_raises(self, key, locale) ==
    LET l == IF isinstance_str(locale) THEN locale.s ELSE locale.value
    IN  IF l \in DOMAIN self._localizations /\ key \in DOMAIN self._localizations[l]
        THEN [ret |-> <<self._localizations[l][key]>>, err |-> NoErr]
        ELSE [ret |-> None, err |-> NoErr]

\* LocalizationStore.get
get(self, key, locale) ==
    LET l == IF isinstance_str(locale) THEN locale.s ELSE locale.value
    IN  IF l \in DOMAIN self._localizations /\ key \in DOMAIN self._localizations[l]
        THEN [ret |-> <<self._localizations[l][key]>>, err |-> NoErr]
        ELSE IF self.strict
             THEN [ret |-> None, err |-> LocalizationLookupError(key, l)]
             ELSE [ret |-> None, err |-> NoErr]

\* the loop of _load_file over data.items(), from item i on
RECURSIVE MergeItems(_, _, _, _, _)
MergeItems(self, locale, items, path, i) ==
    IF i > Len(items) THEN Return(self)
    ELSE LET key == items[i][1]
             localization == items[i][2]
         IN  IF ~isinstance_str(key)
             THEN Raise(self, ValueError("Key '" \o key.s \o "' in file '" \o str(path)
                                         \o "' must've been a string."))
             ELSE IF ~isinstance_str(localization)
             THEN Raise(self, ValueError("Localization '" \o localization.s \o "' in file '"
                                         \o str(path) \o "' must've been a string."))
             ELSE IF locale \notin DOMAIN self._localizations
             THEN Raise(self, KeyError(locale))
             ELSE MergeItems(
                    [self EXCEPT !._localizations[locale] = setitem(@, key.s, localization.s)],
                    locale, items, path, i + 1)

\* LocalizationStore._load_file
_load_file(self, fs, path) ==
    IF suffix(path) # "json"
    THEN Raise(self, ValueError("'" \o str(path) \o "' is not a .json file"))
    ELSE LET locale == as_valid_locale(stem(path))
         IN  IF locale = None
             THEN Raise(self, ValueError("'" \o stem(path) \o "' is not a valid locale."))
             ELSE LET parsed == _from_json(fs[path].text)
                  IN  IF parsed.err # NoErr
                      THEN Raise(self, RuntimeError("Unable to load contents of '" \o str(path)
                                                    \o "' as JSON: " \o parsed.err[2]))
                      ELSE IF parsed.data.t # "dict"
                      THEN Raise(self, ValueError("Contents of '" \o str(path)
                                                  \o "' must be a plain JSON object."))
                      ELSE MergeItems(self, locale[1], parsed.data.items, path, 1)

\* the loop of load over path.glob("*.json"), from entry i of the enumeration on
RECURSIVE LoadEntries(_, _, _, _)
LoadEntries(self, fs, entries, i) ==
    IF i > Len(entries) THEN Return(self)
    ELSE IF ~is_file(fs, entries[i]) THEN LoadEntries(self, fs, entries, i + 1)
    ELSE LET r == _load_file(self, fs, entries[i])
         IN  IF r.err # NoErr THEN r ELSE LoadEntries(r.self, fs, entries, i + 1)

\* the entries of path in the order of the enumeration order
Entries(fs, path, order) == SelectSeq(order, LAMBDA e : e \in glob(fs, path))

\* load that also registers the entries of a directory it loads
load_registers_children(self, fs, path, order) ==
    IF ~exists(fs, path)
    THEN Raise(self, RuntimeError("Path '" \o str(path) \o "' does not exist."))
    ELSE IF ~(is_dir(fs, path) \/ is_file(fs, path))
    THEN Raise(self, RuntimeError("Path '" \o str(path) \o "' is not a file or a directory."))
    ELSE IF is_file(fs, path)
         THEN _load_file([self EXCEPT !._paths = @ \cup {path}], fs, path)
         ELSE LoadEntries([self EXCEPT !._paths = @ \cup {path} \cup glob(fs, path)],
                          fs, Entries(fs, path, order), 1)

\* load that puts the mapping back when a file fails, as reload does
load_rolls_back(self, fs, path, order) ==
    IF ~exists(fs, path)
    THEN Raise(self, RuntimeError("Path '" \o str(path) \o "' does not exist."))
    ELSE IF ~(is_dir(fs, path) \/ is_file(fs, path))
    THEN Raise(self, RuntimeError("Path '" \o str(path) \o "' is not a file or a directory."))
    ELSE LET added == [self EXCEPT !._paths = @ \cup {path}]
             r == IF is_file(fs, path)
                  THEN _load_file(added, fs, path)
                  ELSE LoadEntries(added, fs, Entries(fs, path, order), 1)
         IN  IF r.err # NoErr THEN Raise(added, r.err) ELSE r

\* load that registers the path before it looks at it
load_registers_first(self, fs, path, order) ==
    LET added == [self EXCEPT !._paths = @ \cup {path}]
    IN  IF ~exists(fs, path)
        THEN Raise(added, RuntimeError("Path '" \o str(path) \o "' does not exist."))
        ELSE IF ~(is_dir(fs, path) \/ is_file(fs, path))
        THEN Raise(added, RuntimeError("Path '" \o str(path)
                                       \o "' is not a file or a directory."))
        ELSE IF is_file(fs, path)
             THEN _load_file(added, fs, path)
             ELSE LoadEntries(added, fs, Entries(fs, path, order), 1)

\* LocalizationStore.load; order is the order in which glob yields the entries
load(self, fs, path, order) ==
    IF ~exists(fs, path)
    THEN Raise(self, RuntimeError("Path '" \o str(path) \o "' does not exist."))
    ELSE IF ~(is_dir(fs, path) \/ is_file(fs, path))
    THEN Raise(self, RuntimeError("Path '" \o str(path) \o "' is not a file or a directory."))
    ELSE LET added == [self EXCEPT !._paths = @ \cup {path}]
         IN  IF is_file(fs, path)
             THEN _load_file(added, fs, path)
             ELSE LoadEntries(added, fs, Entries(fs, path, order), 1)

\* the loop of reload over self._paths, from path i of the iteration order on
RECURSIVE ReplayPaths(_, _, _, _, _)
ReplayPaths(self, fs, pathOrder, order, i) ==
    IF i > Len(pathOrder) THEN Return(self)
    ELSE LET r == load(self, fs, pathOrder[i], order)
         IN  IF r.err # NoErr THEN r ELSE ReplayPaths(r.self, fs, pathOrder, order, i + 1)

\* reload that forgets the registered paths when a load fails
reload_unregisters(self, fs, pathOrder, order) ==
    LET old == self._localizations
        r == ReplayPaths([self EXCEPT !._localizations = EmptyDict], fs, pathOrder, order, 1)
    IN  IF r.err # NoErr
        THEN Raise([r.self EXCEPT !._localizations = old, !._paths = {}], r.err)
        ELSE Return(r.self)

\* reload without the except clause: a failure leaves the partly rebuilt mapping
reload_no_restore(self, fs, pathOrder, order) ==
    ReplayPaths([self EXCEPT !._localizations = EmptyDict], fs, pathOrder, order, 1)

\* reload that does not clear the mapping before it replays the loads
reload_no_clear(self, fs, pathOrder, order) ==
    LET old == self._localizations
        r == ReplayPaths(self, fs, pathOrder, order, 1)
    IN  IF r.err # NoErr
        THEN Raise([r.self EXCEPT !._localizations = old], r.err)
        ELSE Return(r.self)

\* LocalizationStore.reload; pathOrder is the iteration order of the set _paths
reload(self, fs, pathOrder, order) ==
    LET old == self._localizations
        r == ReplayPaths([self EXCEPT !._localizations = EmptyDict], fs, pathOrder, order, 1)
    IN  IF r.err # NoErr
        THEN Raise([r.self EXCEPT !._localizations = old], r.err)
        ELSE Return(r.self)

-----------------------------------------------------------------------------
(* The state machine *)

Self == [strict |-> strict, _localizations |-> _localizations, _paths |-> _paths]

Result(op, ret, err) == [op |-> op, ret |-> ret, err |-> err]

SetSelf(self) ==
    /\ strict' = self.strict
    /\ _localizations' = self._localizations
    /\ _paths' = self._paths

EmptyDisk == [p \in PathUniverse |-> Missing]

\* the execution contexts that may call reload() on the one store
Contexts == {1, 2}

\* the dict objects a reload() in flight can refer to: 0 is the dict the store
\* holds when the first of the calls starts, c the dict that context c makes
DictIds == {0} \cup Contexts

\* no reload() has started.  pc, old, iter and err are the frame of each call
\* (where it stands, its local old, what is left of its loop over _paths, the
\* exception it caught); cur is the object self._localizations refers to and
\* heap the contents of the objects; before and overlapped record, for the
\* claims, the mapping when the first call started and whether a call started
\* while another was in flight
NoCalls ==
    [pc |-> [c \in Contexts |-> "idle"],
     old |-> [c \in Contexts |-> 0],
     iter |-> [c \in Contexts |-> <<>>],
     err |-> [c \in Contexts |-> NoErr],
     cur |-> 0,
     heap |-> [i \in DictIds |-> EmptyDict],
     before |-> EmptyDict,
     overlapped |-> FALSE]

\* the store as __init__ leaves it, on an empty file system (the object is an
\* instance of a subclass that completes the protocol: see construct)
Init ==
    /\ \E s \in BOOLEAN : /\ strict = s
                          /\ _localizations = init(s)._localizations
                          /\ _paths = init(s)._paths
    /\ disk = EmptyDisk
    /\ result = Result("init", None, NoErr)
    /\ calls = NoCalls

\* any store state: as Init, or with a mapping that already has a (still empty)
\* dict for the locales, which no method of the class itself ever creates
LocaleSets == {{}, ValidLocales}
InitAny ==
    /\ strict \in BOOLEAN
    /\ \E L \in LocaleSets : _localizations = [l \in L |-> EmptyDict]
    /\ _paths = {}
    /\ disk = EmptyDisk
    /\ result = Result("init", None, NoErr)
    /\ calls = NoCalls

Construct(s) ==
    /\ result' = Result("construct", None, construct("LocalizationStore", s).err)
    /\ UNCHANGED <<strict, _localizations, _paths, disk, calls>>

\* get on a mapping that makes an entry for a locale it is asked for and does
\* not have (collections.defaultdict)
Get_creates_locale(key, locale) ==
    /\ \E r \in {get(Self, key, locale)} : result' = Result("get", r.ret, r.err)
    /\ \E l \in {IF isinstance_str(locale) THEN locale.s ELSE locale.value} :
          _localizations' = IF l \in DOMAIN _localizations
                            THEN _localizations
                            ELSE [x \in DOMAIN _localizations \cup {l} |->
                                    IF x = l THEN EmptyDict ELSE _localizations[x]]
    /\ UNCHANGED <<strict, _paths, disk, calls>>

Get(key, locale) ==
    /\ \E r \in {get(Self, key, locale)} : result' = Result("get", r.ret, r.err)
    /\ UNCHANGED <<strict, _localizations, _paths, disk, calls>>

\* a program evaluates Localized.cast(src)
Cast(src) ==
    /\ \E r \in {Localized_cast(src)} : result' = Result("cast", r.ret, r.err)
    /\ UNCHANGED <<strict, _localizations, _paths, disk, calls>>

Load(path, order) ==
    /\ \E r \in {load(Self, disk, path, order)} :
          /\ SetSelf(r.self)
          /\ result' = Result("load", None, r.err)
    /\ UNCHANGED <<disk, calls>>

AllEntries(fs, ps) == UNION {glob(fs, p) : p \in ps}

Reload(pathOrder, order) ==
    /\ \E r \in {reload(Self, disk, pathOrder, order)} :
          /\ SetSelf(r.self)
          /\ result' = Result("reload", None, r.err)
    /\ UNCHANGED <<disk, calls>>

\* the environment creates, rewrites or removes a node; a node below a path
\* that is no directory does not exist
FsChange(p, n) ==
    /\ n # disk[p]
    /\ Len(p) > 1 => (n = Missing \/ is_dir(disk, parent(p)))
    /\ disk' = [q \in PathUniverse |->
                  IF q = p THEN n
                  ELSE IF Len(q) > Len(p) /\ SubSeq(q, 1, Len(p)) = p /\ n.kind # "dir"
                       THEN Missing
                       ELSE disk[q]]
    /\ result' = Result("fs", None, NoErr)
    /\ UNCHANGED <<strict, _localizations, _paths, calls>>

\* the operations on a store
NextStore ==
    \/ \E s \in BOOLEAN : Construct(s)
    \/ \E key \in Keys, locale \in LocaleArgs : Get(key, locale)
    \/ \E path \in LoadArgs : \E order \in Perms(glob(disk, path)) : Load(path, order)
    \/ \E pathOrder \in Perms(_paths) :
         \E order \in Perms(AllEntries(disk, _paths)) : Reload(pathOrder, order)
    \/ \E p \in PathUniverse : \E n \in NodeOptions(p) : FsChange(p, n)

\* the operations of the module: those on a store, and Localized.cast
Next ==
    \/ NextStore
    \/ \E src \in CastArgs : Cast(src)

Spec == Init /\ [][Next]_vars

SpecAny == InitAny /\ [][NextStore]_vars

-----------------------------------------------------------------------------
(* Two contexts call reload() on the same store, one statement at a time *)

Quiet == calls = NoCalls
InFlight(c) == calls.pc[c] \notin {"idle", "done"}
AllDone == \A c \in Contexts : calls.pc[c] = "done"

StepResult == Result("step", None, NoErr)

\* the frame a call leaves behind when it has returned or raised
Ended(cs, c) ==
    [cs EXCEPT !.pc[c] = "done", !.old[c] = 0, !.iter[c] = <<>>, !.err[c] = NoErr]

\* old = self._localizations
ReloadSnapshot(c) ==
    /\ calls.pc[c] = "idle"
    /\ \E base \in {IF Quiet
                    THEN [calls EXCEPT !.heap[0] = _localizations,
                                       !.before = _localizations]
                    ELSE calls} :
          calls' = [base EXCEPT !.pc[c] = "clear",
                                !.old[c] = base.cur,
                                !.overlapped = @ \/ \E d \in Contexts \ {c} : InFlight(d)]
    /\ result' = StepResult
    /\ UNCHANGED <<strict, _localizations, _paths, disk>>

\* self._localizations = {}, and the iterator of the for loop over self._paths
ReloadClear(c, pathOrder) ==
    /\ calls.pc[c] = "clear"
    /\ _localizations' = EmptyDict
    /\ calls' = [calls EXCEPT !.pc[c] = "loop",
                              !.iter[c] = pathOrder,
                              !.cur = c,
                              !.heap[c] = EmptyDict]
    /\ result' = StepResult
    /\ UNCHANGED <<strict, _paths, disk>>

\* self.load(path) for the next path of the loop; an exception enters the
\* except clause
ReloadLoad(c, order) ==
    /\ calls.pc[c] = "loop"
    /\ calls.iter[c] # <<>>
    /\ \E r \in {load(Self, disk, Head(calls.iter[c]), order)} :
          /\ SetSelf(r.self)
          /\ calls' = [calls EXCEPT !.heap[calls.cur] = r.self._localizations,
                                    !.iter[c] = IF r.err = NoErr THEN Tail(@) ELSE @,
                                    !.pc[c] = IF r.err = NoErr THEN "loop" ELSE "except",
                                    !.err[c] = r.err]
    /\ result' = StepResult
    /\ UNCHANGED disk

\* the end of a call that never puts the old dict back
ReloadFinish_keep(c) ==
    /\ calls.pc[c] = "except" \/ (calls.pc[c] = "loop" /\ calls.iter[c] = <<>>)
    /\ calls' = Ended(calls, c)
    /\ result' = Result("reload", None, calls.err[c])
    /\ UNCHANGED <<strict, _localizations, _paths, disk>>

\* the end of a call: the loop is exhausted and the call returns, or the
\* except clause puts old back (self._localizations = old) and re-raises
ReloadFinish(c) ==
    /\ calls.pc[c] = "except" \/ (calls.pc[c] = "loop" /\ calls.iter[c] = <<>>)
    /\ IF calls.pc[c] = "except"
       THEN /\ _localizations' = calls.heap[calls.old[c]]
            /\ calls' = Ended([calls EXCEPT !.cur = calls.old[c]], c)
       ELSE /\ _localizations' = _localizations
            /\ calls' = Ended(calls, c)
    /\ result' = Result("reload", None, calls.err[c])
    /\ UNCHANGED <<strict, _paths, disk>>

\* what the store is given before the calls start
RaceLoadArgs == {DirPath, EnPath}
RaceNodes == {DirPath, EnPath}

NextRace ==
    \/ Quiet /\ \E path \in RaceLoadArgs :
                  \E order \in Perms(glob(disk, path)) : Load(path, order)
    \/ Quiet /\ \E p \in RaceNodes : \E n \in NodeOptions(p) : FsChange(p, n)
    \/ \E c \in Contexts : ReloadSnapshot(c)
    \/ \E c \in Contexts : \E pathOrder \in Perms(_paths) : ReloadClear(c, pathOrder)
    \/ \E c \in Contexts :
         \E order \in Perms(AllEntries(disk, _paths)) : ReloadLoad(c, order)
    \/ \E c \in Contexts : ReloadFinish(c)

SpecRace == InitAny /\ [][NextRace]_vars


-----------------------------------------------------------------------------
(* What the claims speak of *)

Norm(locale) == IF locale.t = "str" THEN locale.s ELSE locale.value
Present(key, l) == l \in DOMAIN _localizations /\ key \in DOMAIN _localizations[l]
Lookup(map, key, l) ==
    IF l \in DOMAIN map /\ key \in DOMAIN map[l] THEN <<map[l][key]>> ELSE None
HasEntries(map) == \E l \in DOMAIN map : map[l] # EmptyDict

\* a data file: an existing .json file named after a valid locale that holds
\* a flat object of string values
DataFile(fs, f) ==
    /\ is_file(fs, f)
    /\ suffix(f) = "json"
    /\ stem(f) \in ValidLocales
    /\ fs[f].text.form = "object"
    /\ \A i \in 1..Len(fs[f].text.members) : fs[f].text.members[i].value.t = "str"

JsonFiles(fs, d) == {c \in glob(fs, d) : is_file(fs, c)}

\* the files a well-formed source consists of
WellFormed(fs, p) ==
    \/ DataFile(fs, p)
    \/ /\ is_dir(fs, p)
       /\ \A c \in PathUniverse : (parent(c) = p /\ exists(fs, c)) => DataFile(fs, c)
SourceFiles(fs, p) == IF is_file(fs, p) THEN {p} ELSE JsonFiles(fs, p)

\* the value file f gives key for its locale: that of the last member named key
Supplies(fs, f, key) == \E i \in 1..Len(fs[f].text.members) : fs[f].text.members[i].name = key
Supplied(fs, f, key) ==
    LET ms == fs[f].text.members
        last == CHOOSE i \in 1..Len(ms) :
                    ms[i].name = key /\ \A j \in (i + 1)..Len(ms) : ms[j].name # key
    IN  ms[last].value.s

-----------------------------------------------------------------------------
(* Claims *)

\* C1: in every store state and disk state, a reload() that raises returns
\* with the locale->key->value mapping exactly as it was before the call, and
\* the error that reaches the caller is the error of the first replayed load
\* that failed.
C1_ReloadAllOrNothing ==
    \A po \in Perms(_paths) : \A o \in Perms(AllEntries(disk, _paths)) :
        \A r \in {reload(Self, disk, po, o)} :
            r.err # NoErr =>
                /\ r.self._localizations = _localizations
                /\ \E i \in 1..Len(po) :
                     LET cleared == [Self EXCEPT !._localizations = EmptyDict]
                     IN  /\ \A j \in 1..(i - 1) : load(cleared, disk, po[j], o).err = NoErr
                         /\ r.err = load(cleared, disk, po[i], o).err

\* C1 witness: a reload has just failed on a store with two registered paths,
\* one of them now missing, and the mapping still holds its entries.
C1_Witness ==
    /\ result.op = "reload"
    /\ Cardinality(_paths) >= 2
    /\ \E p \in _paths :
          /\ ~exists(disk, p)
          /\ result.err = RuntimeError("Path '" \o str(p) \o "' does not exist.")
    /\ HasEntries(_localizations)

\* C2 (as claimed): load() of a well-formed source completes without raising
\* from any store state, and afterwards get returns every value of the source.
C2_LoadGetRoundTrip ==
    [][result'.op = "load" =>
       \A p \in LoadArgs : \A o \in Perms(glob(disk, p)) :
         (Load(p, o) /\ WellFormed(disk, p)) =>
            /\ result'.err = NoErr
            /\ \A f \in SourceFiles(disk, p) : \A k \in Keys :
                 Supplies(disk, f, k) =>
                    Lookup(_localizations', k, stem(f)) = <<Supplied(disk, f, k)>>]_vars

C4_StrictMiss ==
    strict =>
        /\ \A k \in Keys : \A l \in LocaleArgs :
             ~Present(k, Norm(l)) =>
                get(Self, k, l) = [ret |-> None, err |-> <<"LocalizationLookupError", k, Norm(l)>>]
        /\ result.op = "get" => (result.ret = None => result.err # NoErr)

\* C4 witness: a strict get has just raised for a key absent from a locale
\* that is present and holds another key.
C4_Witness ==
    /\ strict
    /\ result.op = "get"
    /\ result.err # NoErr
    /\ result.err[3] \in DOMAIN _localizations
    /\ _localizations[result.err[3]] # EmptyDict
    /\ result.err[2] \notin DOMAIN _localizations[result.err[3]]

\* C5: on a lenient store get never raises: it returns the registered value of
\* a present pair and None when the locale or the key is absent.
C5_LenientMiss ==
    ~strict =>
        /\ \A k \in Keys : \A l \in LocaleArgs :
             get(Self, k, l) =
                [ret |-> IF Present(k, Norm(l)) THEN <<_localizations[Norm(l)][k]>> ELSE None,
                 err |-> NoErr]
        /\ result.op = "get" => result.err = NoErr

\* C5 witness: a lenient get has just returned None although the store holds
\* entries.
C5_Witness ==
    /\ ~strict
    /\ result = Result("get", None, NoErr)
    /\ HasEntries(_localizations)

\* C6: load of a path that does not exist, or is neither a file nor a
\* directory, raises RuntimeError and changes neither the mapping nor the
\* registered path set.
C6_BadPathLeavesStore ==
    \A p \in LoadArgs : \A o \in Perms(glob(disk, p)) :
        (~exists(disk, p) \/ ~(is_dir(disk, p) \/ is_file(disk, p))) =>
            \A r \in {load(Self, disk, p, o)} :
                /\ r.err # NoErr
                /\ r.err[1] = "RuntimeError"
                /\ r.self._localizations = _localizations
                /\ r.self._paths = _paths

\* C6 witness: a load has just raised for a path that is neither a file nor a
\* directory, and the path is not registered.
C6_Witness ==
    /\ result.op = "load"
    /\ result.err = RuntimeError("Path 'i18n' is not a file or a directory.")
    /\ DirPath \notin _paths

\* C7 (as claimed): load of an existing .json file whose stem is no valid
\* locale raises a format error and leaves both the mapping and the registered
\* path set as they were.
C7_InvalidLocaleLeavesStore ==
    [][result'.op = "load" =>
       \A p \in LoadArgs : \A o \in Perms(glob(disk, p)) :
         (Load(p, o) /\ is_file(disk, p) /\ suffix(p) = "json"
                       /\ stem(p) \notin ValidLocales) =>
            /\ result'.err # NoErr
            /\ result'.err[1] = "ValueError"
            /\ _localizations' = _localizations
            /\ _paths' = _paths]_vars

C9_DirectoryLoad ==
    [][result'.op = "load" =>
       \A o \in Perms(glob(disk, DirPath)) :
         (Load(DirPath, o) /\ is_dir(disk, DirPath)
            /\ \A c \in JsonFiles(disk, DirPath) : DataFile(disk, c)) =>
            /\ result'.err = NoErr
            /\ \A l \in ValidLocales : \A k \in Keys :
                 LET fs == {f \in JsonFiles(disk, DirPath) :
                               stem(f) = l /\ Supplies(disk, f, k)}
                 IN  IF fs = {}
                     THEN Lookup(_localizations', k, l) = Lookup(_localizations, k, l)
                     ELSE \E f \in fs :
                            Lookup(_localizations', k, l) = <<Supplied(disk, f, k)>>]_vars

\* C10 (as claimed): LocalizationStore is concrete: LocalizationStore(strict=s)
\* constructs a store.
C10_StoreIsConcrete ==
    result.op = "construct" => result.err = NoErr

\* C11 (as claimed): every exception that leaves load() is a RuntimeError,
\* whatever made the load fail.
C11_LoadRaisesRuntimeError ==
    \A p \in LoadArgs : \A o \in Perms(glob(disk, p)) :
        \A r \in {load(Self, disk, p, o)} :
            r.err # NoErr => r.err[1] = "RuntimeError"

\* the mappings a full rebuild from the registered sources gives
Rebuilt ==
    {r.self._localizations :
        r \in {x \in {ReplayPaths(init(strict), disk, po, o, 1) :
                        po \in Perms(_paths), o \in Perms(AllEntries(disk, _paths))} :
                 x.err = NoErr}}

\* both reload() calls have finished and the mapping is neither the one from
\* before the calls nor a full rebuild
Broken ==
    /\ AllDone
    /\ _localizations # calls.before
    /\ _localizations \notin Rebuilt

C13_GetIsPure ==
    [][result'.op = "get" =>
         /\ _localizations' = _localizations
         /\ _paths' = _paths
         /\ strict' = strict]_vars

\* C13 witness: a strict get on a store with registered paths has just raised
\* for a locale the mapping has no entry for, and it has none still.
C13_Witness ==
    /\ result.op = "get"
    /\ result.err # NoErr
    /\ result.err[3] \notin DOMAIN _localizations
    /\ _paths # {}

\* the container cast is claimed to give for src
Normal(src) == IF isinstance_str(src) THEN Localized(src, None) ELSE src

\* C14 (as claimed): Localized.cast(s) of a bare string s is the container
\* {default: s, key: None}, cast(c) of a container is c, and cast(cast(x)) is
\* cast(x).
C14_CastNormalizes ==
    result.op = "cast" =>
        \A x \in CastArgs : \A r \in {Localized_cast(x)} :
            /\ r.err = NoErr
            /\ r.ret = <<Normal(x)>>
            /\ Localized_cast(r.ret[1]) = r

\* the first check of the single-file loader that file f fails, with the
\* error the failure table gives for it; NoErr if f passes them all
RECURSIVE FirstBadMember(_, _)
FirstBadMember(items, i) ==
    IF i > Len(items) THEN 0
    ELSE IF ~isinstance_str(items[i][1]) \/ ~isinstance_str(items[i][2]) THEN i
    ELSE FirstBadMember(items, i + 1)
TableError(fs, f) ==
    IF suffix(f) # "json"
    THEN ValueError("'" \o str(f) \o "' is not a .json file")
    ELSE IF stem(f) \notin ValidLocales
    THEN ValueError("'" \o stem(f) \o "' is not a valid locale.")
    ELSE IF fs[f].text.form = "malformed"
    THEN RuntimeError("Unable to load contents of '" \o str(f) \o "' as JSON: "
                      \o _from_json(fs[f].text).err[2])
    ELSE IF fs[f].text.form # "object"
    THEN ValueError("Contents of '" \o str(f) \o "' must be a plain JSON object.")
    ELSE LET items == _from_json(fs[f].text).data.items
             bad == FirstBadMember(items, 1)
         IN  IF bad = 0 THEN NoErr
             ELSE IF ~isinstance_str(items[bad][1])
             THEN ValueError("Key '" \o items[bad][1].s \o "' in file '" \o str(f)
                             \o "' must've been a string.")
             ELSE ValueError("Localization '" \o items[bad][2].s \o "' in file '" \o str(f)
                             \o "' must've been a string.")

\* C15 (as claimed): the single-file loader raises, for a file that fails one
\* of its checks, the error of the first check the file fails (extension,
\* locale name, parse, root object, string members), and no error of another
\* class ever leaves it.
C15_LoaderCheckOrder ==
    \A f \in PathUniverse :
        is_file(disk, f) =>
            \A r \in {_load_file(Self, disk, f)} :
                /\ TableError(disk, f) # NoErr => r.err = TableError(disk, f)
                /\ r.err # NoErr => r.err[1] \in {"ValueError", "RuntimeError"}

HasBadMember(fs, f) ==
    /\ is_file(fs, f)
    /\ suffix(f) = "json"
    /\ stem(f) \in ValidLocales
    /\ fs[f].text.form = "object"
    /\ FirstBadMember(_from_json(fs[f].text).data.items, 1) # 0

ReloadOutcomes(self) ==
    {[raised |-> r.err # NoErr, mapping |-> r.self._localizations] :
        r \in {reload(self, disk, po, o) :
                 po \in Perms(self._paths), o \in Perms(AllEntries(disk, self._paths))}}

\* C18 (as claimed): a load(p) that raises leaves the store as if it had not
\* been called: mapping and registered paths are as before, and a reload()
\* after it does what a reload() without it does.
C18_FailedLoadLeavesNoTrace ==
    \A p \in LoadArgs : \A o \in Perms(glob(disk, p)) :
        \A r \in {load(Self, disk, p, o)} :
            r.err # NoErr =>
                /\ r.self._localizations = _localizations
                /\ r.self._paths = _paths
                /\ ReloadOutcomes(r.self) = ReloadOutcomes(Self)

\* a registered source that is missing or invalid: no file or directory, a
\* file that is no data file, or a directory with a .json file that is none
Unusable(fs, p) ==
    \/ ~exists(fs, p)
    \/ ~(is_dir(fs, p) \/ is_file(fs, p))
    \/ is_file(fs, p) /\ ~DataFile(fs, p)
    \/ is_dir(fs, p) /\ \E c \in JsonFiles(fs, p) : ~DataFile(fs, c)

\* C19: no step takes a path out of the registered set (get, load, reload,
\* failed or not); a reload leaves the set exactly as it is whether it returns
\* or raises; while a registered source is missing or invalid every reload
\* raises and leaves the mapping as it was.
C19_PathsOnlyGrow ==
    [][/\ _paths \subseteq _paths'
       /\ result'.op = "reload" =>
            /\ _paths' = _paths
            /\ (\E p \in _paths : Unusable(disk, p)) =>
                 /\ result'.err # NoErr
                 /\ _localizations' = _localizations]_vars

\* C19 witness: a reload has just raised over a registered file that has
\* become malformed; the file is registered still and the earlier entries are
\* in the mapping.
C19_Witness ==
    /\ result = Result("reload", None,
                       RuntimeError("Unable to load contents of 'i18n/en-US.json' as JSON: "
                                    \o "Expecting value"))
    /\ EnPath \in _paths
    /\ disk[EnPath] = File(Malformed)
    /\ HasEntries(_localizations)

=============================================================================
